---- MODULE Spec2Model ----
(***************************************************************************)
(* Price-prediction service of diogormec/capstone_ldssa.                   *)
(*                                                                         *)
(*   src/prepare_features.py  preparar_features_para_predicao: builds the  *)
(*                            single feature row and calls the model       *)
(*   src/app.py               predict / update_actual over the             *)
(*                            PredictionPrice table                        *)
(*                                                                         *)
(* app.py imports its builder under the name                               *)
(* prepare_features_for_prediction, which prepare_features.py does not     *)
(* define: the function predict calls is not among the sources.  It is     *)
(* modelled from the written design of the feature builder and the         *)
(* orchestrator (a NotFound error for a product without sales row, else    *)
(* the number the model returns), and preparar_features_para_predicao is   *)
(* modelled on its own, as a function called directly.                     *)
(*                                                                         *)
(* Strings that the code takes apart (feature names, campaign labels) are  *)
(* sequences of tokens: "campaign_x" is <<"campaign_", "x">>.  The tokens  *)
(* are chosen so that the text "campaign_" / "leaflet_" occurs in a name   *)
(* exactly where the token of that name occurs, hence str.startswith and   *)
(* str.replace on the text are the operators startswith and replace on the *)
(* token sequence.                                                         *)
(* Dates are days of May 2025 (22 = Thursday 2025-05-22).                  *)
(* Numbers that pandas computes in floating point (mean, std) are exact    *)
(* rationals here; NaN is its own value.                                   *)
(***************************************************************************)
EXTENDS Integers, Sequences, FiniteSets, TLC

VARIABLES
    \* ---- feature builder: arguments (prepare_features.py:3)
    sku, date, competitor, features,
    \* ---- reference tables (app.py:85-87, arguments of prepare_features.py:3)
    sales_df_clean, prices_df_clean, campaigns_df_clean,
    \* ---- feature builder: locals and position
    fbpc, new_data, active_campaign, X_pred, fb_return, model_calls,
    \* ---- service (app.py)
    loaded_models, table, pc, local, response

fbvars == <<sku, date, competitor, features, fbpc, new_data, active_campaign,
            X_pred, fb_return>>
refvars == <<sales_df_clean, prices_df_clean, campaigns_df_clean>>
appvars == <<loaded_models, table, pc, local, response>>
vars == <<fbvars, refvars, model_calls, appvars>>

----------------------------------------------------------------------------
\* Bounds of the model.
MaxFeatures == 2
MaxRows == 2
Requests == 2

----------------------------------------------------------------------------
\* Values held by the feature row.
Num(i) == [kind |-> "num", n |-> i, d |-> 1, s |-> ""]
NaN == [kind |-> "nan", n |-> 0, d |-> 1, s |-> ""]
Str(t) == [kind |-> "str", n |-> 0, d |-> 1, s |-> t]
Timestamp(day) == [kind |-> "date", n |-> day, d |-> 1, s |-> ""]

RECURSIVE GCD(_, _)
GCD(a, b) == IF b = 0 THEN a ELSE GCD(b, a % b)

Rat(kind, a, b) ==
    IF a = 0 THEN [kind |-> kind, n |-> 0, d |-> 1, s |-> ""]
    ELSE LET g == GCD(a, b) IN [kind |-> kind, n |-> a \div g, d |-> b \div g, s |-> ""]

RECURSIVE Sum(_)
Sum(xs) == IF xs = <<>> THEN 0 ELSE Head(xs) + Sum(Tail(xs))

RECURSIVE SumSq(_)
SumSq(xs) == IF xs = <<>> THEN 0 ELSE Head(xs) * Head(xs) + SumSq(Tail(xs))

Range(xs) == {xs[i] : i \in DOMAIN xs}

\* pandas Series.mean(): NaN for an empty series.
mean(xs) == IF xs = <<>> THEN NaN ELSE Rat("num", Sum(xs), Len(xs))

\* pandas Series.std() (ddof = 1), as the square root of the exact variance.
std(xs) ==
    LET k == Len(xs)
    IN  IF k < 2 THEN NaN
        ELSE Rat("sqrt", k * SumSq(xs) - Sum(xs) * Sum(xs), k * (k - 1))

min(xs) == Num(CHOOSE m \in Range(xs) : \A x \in Range(xs) : m <= x)
max(xs) == Num(CHOOSE m \in Range(xs) : \A x \in Range(xs) : m >= x)

\* Timestamp.year / .month / .dayofweek for a day of May 2025 (Monday = 0).
year(day) == 2025
month(day) == 5
dayofweek(day) == (day + 2) % 7

----------------------------------------------------------------------------
\* str.startswith(prefix) and str.replace(old, '') on token sequences.
startswith(name, prefix) == Len(name) >= 1 /\ name[1] = prefix
replace(name, old) == SelectSeq(name, LAMBDA t : t # old)

\* A dict with insertion order: a sequence of [k, v]; d[k] = v.
Keys(dict) == {dict[i].k : i \in DOMAIN dict}
DictSet(dict, key, val) ==
    IF key \in Keys(dict)
    THEN [i \in DOMAIN dict |-> IF dict[i].k = key THEN [k |-> key, v |-> val] ELSE dict[i]]
    ELSE Append(dict, [k |-> key, v |-> val])
DictGet(dict, key) == dict[CHOOSE i \in DOMAIN dict : dict[i].k = key].v

Levels == << <<"structure_level_1">>, <<"structure_level_2">>,
             <<"structure_level_3">>, <<"structure_level_4">> >>

----------------------------------------------------------------------------
\* Feature builder, prepare_features.py.
\* Reference rows:  sales     [sku, levels = <<l1, l2, l3, l4>>]
\*                  prices    [sku, target_price]
\*                  campaigns [competitor, start_date, end_date, chain_campaign]

\* sales_df_clean[sales_df_clean['sku'] == sku]
sku_subset(sales, s) == SelectSeq(sales, LAMBDA r : r.sku = s)

\* new_data as first built, with sku_info the first matching sales row.
initial_new_data(s, dt, comp, sku_info) ==
    << [k |-> <<"sku">>, v |-> Num(s)],
       [k |-> <<"date">>, v |-> Timestamp(dt)],
       [k |-> <<"competitor">>, v |-> Str(comp)],
       [k |-> Levels[1], v |-> Num(sku_info.levels[1])],
       [k |-> Levels[2], v |-> Num(sku_info.levels[2])],
       [k |-> Levels[3], v |-> Num(sku_info.levels[3])],
       [k |-> Levels[4], v |-> Num(sku_info.levels[4])],
       [k |-> <<"year">>, v |-> Num(year(dt))],
       [k |-> <<"month">>, v |-> Num(month(dt))],
       [k |-> <<"day_of_week">>, v |-> Num(dayofweek(dt))],
       [k |-> <<"is_weekend">>, v |-> Num(IF dayofweek(dt) \in {5, 6} THEN 1 ELSE 0)],
       [k |-> <<"is_promo_period">>, v |-> Num(0)] >>

\* Variant: the date is not compared with the range of the row.
resolve_campaign_any_date(campaigns, comp, dt) ==
    LET rows == SelectSeq(campaigns, LAMBDA c : c.competitor = comp)
    IN  IF rows = <<>> THEN <<"no_campaign">> ELSE rows[1].chain_campaign

\* The label of the first campaign row of the competitor whose range holds
\* the date, 'no_campaign' when there is none.
resolve_campaign(campaigns, comp, dt) ==
    LET rows == SelectSeq(campaigns, LAMBDA c : c.competitor = comp)
        hits == SelectSeq(rows, LAMBDA c : c.start_date <= dt /\ dt <= c.end_date)
    IN  IF hits = <<>> THEN <<"no_campaign">> ELSE hits[1].chain_campaign

\* 1 if active_campaign == campaign_name or feature == '' else 0
campaign_flag(feature, active) ==
    LET campaign_name == replace(feature, "campaign_")
    IN  IF active = campaign_name \/ feature = <<>> THEN 1 ELSE 0

RECURSIVE campaign_features(_, _, _)
campaign_features(nd, feats, active) ==
    IF feats = <<>> THEN nd
    ELSE LET feature == Head(feats)
         IN  campaign_features(
                 IF startswith(feature, "campaign_")
                 THEN DictSet(nd, feature, Num(campaign_flag(feature, active)))
                 ELSE nd,
                 Tail(feats), active)

\* 1 if leaflet_name == 'none' else 0
leaflet_flag(feature) ==
    LET leaflet_name == replace(feature, "leaflet_")
    IN  IF leaflet_name = <<"none">> THEN 1 ELSE 0

RECURSIVE leaflet_features(_, _)
leaflet_features(nd, feats) ==
    IF feats = <<>> THEN nd
    ELSE LET feature == Head(feats)
         IN  leaflet_features(
                 IF startswith(feature, "leaflet_")
                 THEN DictSet(nd, feature, Num(leaflet_flag(feature)))
                 ELSE nd,
                 Tail(feats))

target_price(rows) == [i \in DOMAIN rows |-> rows[i].target_price]

\* mean/std/min/max of the product's own price rows; no key when it has none.
price_statistics(nd, prices, s) ==
    LET prices_stats == target_price(SelectSeq(prices, LAMBDA r : r.sku = s))
    IN  IF Len(prices_stats) > 0
        THEN DictSet(DictSet(DictSet(DictSet(nd,
                 <<"mean_price">>, mean(prices_stats)),
                 <<"std_price">>, IF Len(prices_stats) > 1 THEN std(prices_stats) ELSE Num(0)),
                 <<"min_price">>, min(prices_stats)),
                 <<"max_price">>, max(prices_stats))
        ELSE nd

\* sales_df_clean[sales_df_clean['sku'] == sku][level].unique()
list_structure_values(sales, s, level) ==
    {r.levels[level] : r \in Range(sku_subset(sales, s))}

\* prices_df_clean[prices_df_clean['sku'].isin(list_structure_values)]
filtered_prices(sales, prices, s, level) ==
    SelectSeq(prices, LAMBDA r : r.sku \in list_structure_values(sales, s, level))

avg_price_key(level) == Levels[level] \o <<"_avg_price">>

RECURSIVE structure_avg_prices(_, _, _, _, _)
structure_avg_prices(nd, sales, prices, s, level) ==
    IF level > 4 THEN nd
    ELSE structure_avg_prices(
             DictSet(nd, avg_price_key(level),
                     mean(target_price(filtered_prices(sales, prices, s, level)))),
             sales, prices, s, level + 1)

\* [f for f in features if f in df_final.columns]
available_features(nd, feats) == SelectSeq(feats, LAMBDA f : f \in Keys(nd))

\* df_final[available_features]: the columns in the order of the list.
select_columns(nd, feats) ==
    LET av == available_features(nd, feats)
    IN  [i \in DOMAIN av |-> [k |-> av[i], v |-> DictGet(nd, av[i])]]

\* set(features) - set(available_features)
missing_features(nd, feats) == Range(feats) \ Range(available_features(nd, feats))

\* The value the reconciliation loop gives a missing feature.
default_value(feature) ==
    IF startswith(feature, "campaign_") THEN 0
    ELSE IF startswith(feature, "leaflet_")
         THEN (IF feature # <<"leaflet_", "none">> THEN 0 ELSE 1)
         ELSE 0

\* Variant: the missing features are not filled in.
fill_missing_skipped(X, order) == X

\* for feature in missing_features: X_pred[feature] = default, the set
\* being walked in the order `order`.
RECURSIVE fill_missing(_, _)
fill_missing(X, order) ==
    IF order = <<>> THEN X
    ELSE fill_missing(DictSet(X, Head(order), Num(default_value(Head(order)))), Tail(order))

\* The orders in which a Python set can be iterated: every enumeration.
Orders(S) == {o \in [1..Cardinality(S) -> S] : Range(o) = S}

\* new_data after lines 15-83, for a product the sales reference knows.
built_new_data(s, dt, comp, sales, prices, campaigns, feats) ==
    LET nd0 == initial_new_data(s, dt, comp, sku_subset(sales, s)[1])
        nd1 == campaign_features(nd0, feats, resolve_campaign(campaigns, comp, dt))
        nd2 == leaflet_features(nd1, feats)
        nd3 == price_statistics(nd2, prices, s)
    IN  structure_avg_prices(nd3, sales, prices, s, 1)

\* X_pred after lines 92-108.
build_X_pred(s, dt, comp, sales, prices, campaigns, feats, order) ==
    fill_missing(select_columns(built_new_data(s, dt, comp, sales, prices, campaigns, feats),
                                feats),
                 order)

\* What model.predict(X_pred)[0] can do: return a number or raise.
ModelOutputs == {10, 20}
ModelOutcomes == [status : {"ok"}, price : ModelOutputs, sku : {0}]
                 \cup {[status |-> "ModelError", price |-> 0, sku |-> 0]}
NoReturn == [status |-> "none", price |-> 0, sku |-> 0]
NotFound(s) == [status |-> "ValueError", price |-> 0, sku |-> s]

----------------------------------------------------------------------------
\* Bounded inputs of the feature builder.
Competitors == {"competitorA", "competitorB"}
Dates == 22..25

RECURSIVE SeqsUpTo(_, _)
SeqsUpTo(S, k) ==
    IF k = 0 THEN {<<>>}
    ELSE LET shorter == SeqsUpTo(S, k - 1)
         IN  shorter \cup {Append(q, x) : q \in shorter, x \in S}

CampaignNames ==
    { <<"campaign_", "x">>, <<"campaign_", "y">>, <<"campaign_">>,
      <<"campaign_", "no_campaign">>, <<"campaign_", "campaign_", "x">> }
LeafletNames ==
    { <<"leaflet_", "none">>, <<"leaflet_", "x">>, <<"leaflet_", "leaflet_", "none">> }
OtherNames ==
    { <<"year">>, <<"mean_price">>, <<"competitor_avg_price">>,
      <<"structure_level_1", "_avg_price">> }
FeatureNames == CampaignNames \cup LeafletNames \cup OtherNames

SalesPool ==
    { [sku |-> 1, levels |-> <<2, 7, 8, 9>>],
      [sku |-> 1, levels |-> <<3, 7, 8, 9>>],
      [sku |-> 2, levels |-> <<2, 7, 8, 8>>] }
PricePool ==
    { [sku |-> 1, target_price |-> 10],
      [sku |-> 2, target_price |-> 20],
      [sku |-> 3, target_price |-> 40] }
CampaignPool ==
    { [competitor |-> "competitorA", start_date |-> 23, end_date |-> 24,
       chain_campaign |-> <<"x">>],
      [competitor |-> "competitorA", start_date |-> 24, end_date |-> 25,
       chain_campaign |-> <<"y">>],
      [competitor |-> "competitorB", start_date |-> 23, end_date |-> 23,
       chain_campaign |-> <<"x">>] }

OneSale == << [sku |-> 1, levels |-> <<2, 7, 8, 9>>] >>
PriceFeatures ==
    << <<"structure_level_1", "_avg_price">>, <<"mean_price">>,
       <<"structure_level_4", "_avg_price">> >>

\* The whole function in one evaluation: the ValueError of an unknown
\* product, else what the model does with X_pred.
preparar_features_para_predicao(s, dt, comp, sales, prices, campaigns, feats, order, out) ==
    IF sku_subset(sales, s) = <<>>
    THEN [ret |-> NotFound(s), X |-> <<>>, calls |-> 0]
    ELSE [ret |-> out, calls |-> 1,
          X |-> build_X_pred(s, dt, comp, sales, prices, campaigns, feats, order)]

----------------------------------------------------------------------------
\* Service state, app.py.
\* A row of PredictionPrice (app.py:27-35); its primary key is its position
\* in `table`.  created_at (a wall-clock default) is left out.
NULL == -1
NoObs == [sku |-> NULL, date |-> 0, competitor |-> ""]
NoRow == [observation_id |-> "", sku |-> 0, date |-> 0, competitor |-> "",
          observation |-> NoObs, predicted_price |-> 0, actual_price |-> NULL]

NoLocal == [op |-> "", observation_id |-> "", explicit |-> FALSE, obs |-> NoObs,
            date |-> 0, predicted_price |-> 0, actual_price |-> NULL, pk |-> 0,
            prediction |-> NoRow]
NoResponse == [code |-> 0, error |-> "", observation_id |-> "", sku |-> 0,
               prediction |-> 0, actual_price |-> NULL]

\* jsonify(...), status
Reply(code, error, observation_id) ==
    [code |-> code, error |-> error, observation_id |-> observation_id, sku |-> 0,
     prediction |-> 0, actual_price |-> NULL]

\* The except-handler of predict: str(e); the builder's NotFound names the sku.
ReplyException(error, s) ==
    [code |-> 500, error |-> error, observation_id |-> "", sku |-> s,
     prediction |-> 0, actual_price |-> NULL]

\* PredictionPrice.get(PredictionPrice.observation_id == observation_id)
Matching(tbl, observation_id) == {i \in DOMAIN tbl : tbl[i].observation_id = observation_id}
Exists(tbl, observation_id) == Matching(tbl, observation_id) # {}
GetPk(tbl, observation_id) ==
    CHOOSE i \in Matching(tbl, observation_id) : \A j \in Matching(tbl, observation_id) : i <= j

\* return jsonify(...): the request ends with a response.
Finish(r, resp) ==
    /\ pc' = [pc EXCEPT ![r] = "done"]
    /\ response' = [response EXCEPT ![r] = resp]

\* predict after the builder call (app.py:171-175): a returned price goes on
\* to the save, an exception to the handler (app.py:200-204).
AfterBuilder(r, mine, dt, ret) ==
    IF ret.status = "ok"
    THEN /\ pc' = [pc EXCEPT ![r] = "save"]
         /\ local' = [local EXCEPT ![r] = [mine EXCEPT !.date = dt,
                                                        !.predicted_price = ret.price]]
         /\ UNCHANGED response
    ELSE /\ Finish(r, ReplyException(ret.status, ret.sku))
         /\ local' = [local EXCEPT ![r] = mine]

\* The service at rest.
AppIdle ==
    /\ pc = [r \in 1..Requests |-> "idle"]
    /\ local = [r \in 1..Requests |-> NoLocal]
    /\ response = [r \in 1..Requests |-> NoResponse]

\* Campaign calendar, date, competitor and the campaign/leaflet names vary.
CampaignInputs ==
    /\ sku \in {1, 2}
    /\ sales_df_clean = OneSale
    /\ prices_df_clean = <<>>
    /\ campaigns_df_clean \in SeqsUpTo(CampaignPool, MaxRows)
    /\ date \in Dates
    /\ competitor \in Competitors
    /\ features \in SeqsUpTo(CampaignNames, MaxFeatures)

\* Sales and price tables and the product vary.
PriceInputs ==
    /\ sku \in {1, 2}
    /\ sales_df_clean \in SeqsUpTo(SalesPool, MaxRows)
    /\ prices_df_clean \in SeqsUpTo(PricePool, MaxRows)
    /\ campaigns_df_clean = <<>>
    /\ date = 22
    /\ competitor = "competitorA"
    /\ features = PriceFeatures

\* The feature-name list varies over every kind of name.
SchemaInputs ==
    /\ sku \in {1, 2}
    /\ sales_df_clean = OneSale
    /\ prices_df_clean \in SeqsUpTo({[sku |-> 1, target_price |-> 10]}, 1)
    /\ campaigns_df_clean \in SeqsUpTo({[competitor |-> "competitorA", start_date |-> 23,
                                         end_date |-> 24, chain_campaign |-> <<"x">>]}, 1)
    /\ date = 24
    /\ competitor = "competitorA"
    /\ features \in SeqsUpTo(FeatureNames, MaxFeatures)

InitFB ==
    /\ CampaignInputs \/ PriceInputs \/ SchemaInputs
    /\ fbpc = "start"
    /\ new_data = <<>>
    /\ active_campaign = <<>>
    /\ X_pred = <<>>
    /\ fb_return = NoReturn
    /\ model_calls = 0
    /\ loaded_models = Competitors
    /\ table = <<>>
    /\ AppIdle

FBInputsUnchanged == UNCHANGED <<sku, date, competitor, features, refvars, appvars>>

\* Variant: an unknown product gets a row of empty structure codes and
\* the function goes on.
FB_Lookup_recover ==
    /\ fbpc = "start"
    /\ fbpc' = "campaigns"
    /\ new_data' = initial_new_data(sku, date, competitor,
                        IF sku_subset(sales_df_clean, sku) = <<>>
                        THEN [sku |-> sku, levels |-> <<0, 0, 0, 0>>]
                        ELSE sku_subset(sales_df_clean, sku)[1])
    /\ UNCHANGED <<fb_return, active_campaign, X_pred, model_calls>>
    /\ FBInputsUnchanged

\* Lines 11-36: unknown product -> raise ValueError; else the base row.
FB_Lookup ==
    /\ fbpc = "start"
    /\ IF sku_subset(sales_df_clean, sku) = <<>>
       THEN /\ fbpc' = "raised"
            /\ fb_return' = NotFound(sku)
            /\ UNCHANGED new_data
       ELSE /\ fbpc' = "campaigns"
            /\ new_data' = initial_new_data(sku, date, competitor,
                                            sku_subset(sales_df_clean, sku)[1])
            /\ UNCHANGED fb_return
    /\ UNCHANGED <<active_campaign, X_pred, model_calls>>
    /\ FBInputsUnchanged

\* Lines 38-51.
FB_Campaigns ==
    /\ fbpc = "campaigns"
    /\ active_campaign' = resolve_campaign(campaigns_df_clean, competitor, date)
    /\ new_data' = campaign_features(new_data, features, active_campaign')
    /\ fbpc' = "leaflets"
    /\ UNCHANGED <<X_pred, fb_return, model_calls>>
    /\ FBInputsUnchanged

\* Lines 53-58.
FB_Leaflets ==
    /\ fbpc = "leaflets"
    /\ new_data' = leaflet_features(new_data, features)
    /\ fbpc' = "price_stats"
    /\ UNCHANGED <<active_campaign, X_pred, fb_return, model_calls>>
    /\ FBInputsUnchanged

\* Lines 60-68.
FB_PriceStatistics ==
    /\ fbpc = "price_stats"
    /\ new_data' = price_statistics(new_data, prices_df_clean, sku)
    /\ fbpc' = "structure_avg"
    /\ UNCHANGED <<active_campaign, X_pred, fb_return, model_calls>>
    /\ FBInputsUnchanged

\* Lines 70-83.
FB_StructureAvg ==
    /\ fbpc = "structure_avg"
    /\ new_data' = structure_avg_prices(new_data, sales_df_clean, prices_df_clean, sku, 1)
    /\ fbpc' = "reconcile"
    /\ UNCHANGED <<active_campaign, X_pred, fb_return, model_calls>>
    /\ FBInputsUnchanged

\* Lines 92-108.
FB_Reconcile ==
    /\ fbpc = "reconcile"
    /\ \E order \in Orders(missing_features(new_data, features)) :
           X_pred' = fill_missing(select_columns(new_data, features), order)
    /\ fbpc' = "predict"
    /\ UNCHANGED <<new_data, active_campaign, fb_return, model_calls>>
    /\ FBInputsUnchanged

\* Lines 110-115.
FB_Predict ==
    /\ fbpc = "predict"
    /\ \E out \in ModelOutcomes : fb_return' = out
    /\ model_calls' = model_calls + 1
    /\ fbpc' = IF fb_return'.status = "ok" THEN "returned" ELSE "raised"
    /\ UNCHANGED <<new_data, active_campaign, X_pred>>
    /\ FBInputsUnchanged

\* The row predict inserts.
new_row(loc) ==
    [observation_id |-> loc.observation_id,
     sku |-> loc.obs.sku,
     date |-> loc.date,
     competitor |-> loc.obs.competitor,
     observation |-> loc.obs,
     predicted_price |-> loc.predicted_price,
     actual_price |-> NULL]

\* What the IntegrityError handler (app.py:187-192) answers.  It first calls
\* DB.rollback(), and DB is by then the database object bound at app.py:44,
\* not the one the table is bound to (app.py:24, 38): no query ever opens
\* its connection.  peewee's rollback() acts on the connection of the object:
\* where it raises for want of one, the exception leaves the handler and
\* the outer handler (app.py:200-204) answers 500; where it returns, the
\* answer is 400 'already exists'.
IntegrityErrorReplies(observation_id) ==
    { Reply(400, "already_exists", observation_id),
      ReplyException("AttributeError", 0) }

\* predict, lines 177-198: the INSERT; observation_id is unique (app.py:28).
PredictSave(r) ==
    /\ pc[r] = "save"
    /\ IF Exists(table, local[r].observation_id)
       THEN /\ \E resp \in IntegrityErrorReplies(local[r].observation_id) : Finish(r, resp)
            /\ UNCHANGED table
       ELSE /\ table' = Append(table, new_row(local[r]))
            /\ Finish(r, [Reply(200, "", local[r].observation_id)
                             EXCEPT !.prediction = local[r].predicted_price])
    /\ UNCHANGED <<local, loaded_models, model_calls, fbvars, refvars>>

NextFB ==
    \/ FB_Lookup
    \/ FB_Campaigns
    \/ FB_Leaflets
    \/ FB_PriceStatistics
    \/ FB_StructureAvg
    \/ FB_Reconcile
    \/ FB_Predict

SpecFB == InitFB /\ [][NextFB]_vars

----------------------------------------------------------------------------
\* The service, app.py.  Each request runs in a thread of its own; a step is
\* what a request does between two accesses of the PredictionPrice table.

\* The datasets and feature lists loaded at start-up (app.py:59-87).
AppSales == << [sku |-> 1, levels |-> <<2, 7, 8, 9>>],
               [sku |-> 2, levels |-> <<2, 7, 8, 8>>] >>
AppPrices == << [sku |-> 1, target_price |-> 10] >>
AppCampaigns == << [competitor |-> "competitorA", start_date |-> 23, end_date |-> 24,
                    chain_campaign |-> <<"x">>] >>
AppFeatures(comp) ==
    IF comp = "competitorA"
    THEN << <<"year">>, <<"campaign_", "x">>, <<"leaflet_", "none">>, <<"mean_price">> >>
    ELSE << <<"competitor_avg_price">>, <<"month">>, <<"campaign_", "no_campaign">> >>

\* Request bodies of /predict.  observation_id "" is an absent id; sku NULL,
\* date 0 and competitor "" are absent fields; date -1 is an unparseable date.
ValidBodies ==
    [data : {TRUE}, observation_id : {"", "obs1", "obs2"}, sku : {1}, date : {24},
     competitor : {"competitorA", "competitorB"}]
Defect(field, value) ==
    [[data |-> TRUE, observation_id |-> "obs1", sku |-> 1, date |-> 24,
      competitor |-> "competitorA"] EXCEPT ![field] = value]
PredictBodies ==
    ValidBodies \cup
    { Defect("data", FALSE), Defect("sku", NULL), Defect("sku", 0), Defect("sku", 5),
      Defect("date", 0), Defect("date", -1), Defect("competitor", ""),
      Defect("competitor", "competitorC") }

\* pred_<timestamp>_<random suffix>, 5 characters first, 8 on a clash.  The
\* suffix is drawn anew for every request: two requests mostly get different
\* ids, and can get the same one.
Generated5 == {"pred_aaaaa", "pred_bbbbb", "pred_ccccc"}
Generated8 == {"pred_aaaaaaaa", "pred_bbbbbbbb"}

\* A row an earlier run of the service left in predictions.db.
StoredRow ==
    [observation_id |-> "obs2", sku |-> 2, date |-> 23, competitor |-> "competitorB",
     observation |-> [sku |-> 2, date |-> 23, competitor |-> "competitorB"],
     predicted_price |-> 20, actual_price |-> NULL]

\* The ids a client of update_actual names: given ones and generated ones.
ObservationIds == {"obs1", "obs2", "pred_aaaaa", "pred_aaaaaaaa"}
ActualPrices == {NULL, 11, 12}

Init ==
    /\ sku = 0 /\ date = 0 /\ competitor = "" /\ features = <<>>
    /\ fbpc = "idle" /\ new_data = <<>> /\ active_campaign = <<>> /\ X_pred = <<>>
    /\ fb_return = NoReturn
    /\ model_calls = 0
    /\ sales_df_clean = AppSales
    /\ prices_df_clean = AppPrices
    /\ campaigns_df_clean = AppCampaigns
    /\ loaded_models \in {{"competitorA"}, Competitors}
    /\ table \in {<<>>, <<StoredRow>>}
    /\ AppIdle


\* The builder that app.py imports (app.py:8), which the sources do not
\* hold.  By its written design: a product id without row in the sales
\* reference fails with NotFound, carrying the id, and the model is not
\* called; else the feature row is built and the model's result, or the
\* model's failure, is passed on unchanged.
NotFoundError(s) == [status |-> "NotFound", price |-> 0, sku |-> s]
prepare_features_for_prediction(s, dt, comp, sales, prices, campaigns, feats, out) ==
    IF \A i \in DOMAIN sales : sales[i].sku # s
    THEN [ret |-> NotFoundError(s), calls |-> 0]
    ELSE [ret |-> out, calls |-> 1]

\* The builder call of predict (app.py:171-175) for a body.
RunBuilder(body, out) ==
    prepare_features_for_prediction(body.sku, body.date, body.competitor,
        sales_df_clean, prices_df_clean, campaigns_df_clean,
        AppFeatures(body.competitor), out)

\* predict, lines 108-175 and the handler 200-204: everything up to the
\* builder's return; the table is read once (line 127).
PredictBegin(r) ==
    /\ pc[r] = "idle"
    /\ \E body \in PredictBodies, g5 \in Generated5, g8 \in Generated8, out \in ModelOutcomes :
         LET explicit == body.observation_id # ""
             first_id == IF explicit THEN body.observation_id ELSE g5
             existing == Exists(table, first_id)
             observation_id == IF existing /\ ~explicit THEN g8 ELSE first_id
             obs == [sku |-> body.sku, date |-> body.date, competitor |-> body.competitor]
             mine == [NoLocal EXCEPT !.op = "predict", !.observation_id = observation_id,
                                     !.explicit = explicit, !.obs = obs]
         IN  IF ~body.data
             THEN /\ Finish(r, Reply(400, "missing_data", ""))
                  /\ local' = [local EXCEPT ![r] = [NoLocal EXCEPT !.op = "predict"]]
                  /\ UNCHANGED model_calls
             ELSE IF existing /\ explicit
             THEN /\ Finish(r, Reply(400, "already_exists", observation_id))
                  /\ local' = [local EXCEPT ![r] = mine]
                  /\ UNCHANGED model_calls
             ELSE IF body.sku = NULL
             THEN /\ Finish(r, ReplyException("TypeError", 0))
                  /\ local' = [local EXCEPT ![r] = mine]
                  /\ UNCHANGED model_calls
             ELSE IF body.sku = 0 \/ body.date = 0 \/ body.competitor = ""
             THEN /\ Finish(r, Reply(400, "required_fields", observation_id))
                  /\ local' = [local EXCEPT ![r] = mine]
                  /\ UNCHANGED model_calls
             ELSE IF body.competitor \notin loaded_models
             THEN /\ Finish(r, Reply(400, "competitor_not_found", observation_id))
                  /\ local' = [local EXCEPT ![r] = mine]
                  /\ UNCHANGED model_calls
             ELSE IF body.date = -1
             THEN /\ Finish(r, ReplyException("ParserError", 0))
                  /\ local' = [local EXCEPT ![r] = mine]
                  /\ UNCHANGED model_calls
             ELSE LET run == RunBuilder(body, out)
                  IN  /\ model_calls' = model_calls + run.calls
                      /\ AfterBuilder(r, mine, body.date, run.ret)
    /\ UNCHANGED <<table, loaded_models, fbvars, refvars>>
\* Variant: an unknown observation id is answered 404 after a row was created.
UpdateBegin_upsert(r) ==
    /\ pc[r] = "idle"
    /\ \E observation_id \in ObservationIds, actual_price \in ActualPrices :
         LET mine == [NoLocal EXCEPT !.op = "update_actual",
                                     !.observation_id = observation_id,
                                     !.actual_price = actual_price]
         IN  IF actual_price = NULL
             THEN /\ Finish(r, Reply(400, "missing_actual_price", ""))
                  /\ local' = [local EXCEPT ![r] = mine]
                  /\ UNCHANGED table
             ELSE IF ~Exists(table, observation_id)
             THEN /\ Finish(r, Reply(404, "not_found", ""))
                  /\ local' = [local EXCEPT ![r] = mine]
                  /\ table' = Append(table, [NoRow EXCEPT !.observation_id = observation_id,
                                                          !.actual_price = actual_price])
             ELSE /\ pc' = [pc EXCEPT ![r] = "update_save"]
                  /\ local' = [local EXCEPT ![r] =
                         [mine EXCEPT !.pk = GetPk(table, observation_id),
                                      !.prediction =
                                          [table[GetPk(table, observation_id)]
                                              EXCEPT !.actual_price = actual_price]]]
                  /\ UNCHANGED <<response, table>>
    /\ UNCHANGED <<loaded_models, model_calls, fbvars, refvars>>

\* update_actual, lines 210-221 and 231-234: the SELECT and the assignment
\* to the instance.
UpdateBegin(r) ==
    /\ pc[r] = "idle"
    /\ \E observation_id \in ObservationIds, actual_price \in ActualPrices :
         LET mine == [NoLocal EXCEPT !.op = "update_actual",
                                     !.observation_id = observation_id,
                                     !.actual_price = actual_price]
         IN  IF actual_price = NULL
             THEN /\ Finish(r, Reply(400, "missing_actual_price", ""))
                  /\ local' = [local EXCEPT ![r] = mine]
             ELSE IF ~Exists(table, observation_id)
             THEN /\ Finish(r, Reply(404, "not_found", ""))
                  /\ local' = [local EXCEPT ![r] = mine]
             ELSE /\ pc' = [pc EXCEPT ![r] = "update_save"]
                  /\ local' = [local EXCEPT ![r] =
                         [mine EXCEPT !.pk = GetPk(table, observation_id),
                                      !.prediction =
                                          [table[GetPk(table, observation_id)]
                                              EXCEPT !.actual_price = actual_price]]]
                  /\ UNCHANGED response
    /\ UNCHANGED <<table, loaded_models, model_calls, fbvars, refvars>>

\* Variant: the actual price is written to the predicted price as well.
saved_row_both_prices(old, instance) ==
    [instance EXCEPT !.predicted_price = instance.actual_price]

\* The row that prediction.save() writes: every field of the instance.
saved_row(old, instance) == instance

\* update_actual, lines 222-229: the UPDATE of the row by primary key.
UpdateSave(r) ==
    /\ pc[r] = "update_save"
    /\ table' = [table EXCEPT ![local[r].pk] = saved_row(@, local[r].prediction)]
    /\ Finish(r, [Reply(200, "", local[r].observation_id)
                     EXCEPT !.prediction = local[r].prediction.predicted_price,
                            !.actual_price = local[r].prediction.actual_price])
    /\ UNCHANGED <<local, loaded_models, model_calls, fbvars, refvars>>

Next ==
    \E r \in 1..Requests :
        \/ PredictBegin(r)
        \/ PredictSave(r)
        \/ UpdateBegin(r)
        \/ UpdateSave(r)

Spec == Init /\ [][Next]_vars

----------------------------------------------------------------------------
\* Properties.

\* Positions of the builder call.
KnownProduct == sku_subset(sales_df_clean, sku) # <<>>
AfterCampaigns == fbpc \in {"leaflets", "price_stats", "structure_avg", "reconcile", "predict"}
AfterLeaflets == fbpc \in {"price_stats", "structure_avg", "reconcile", "predict"}
AfterStructureAvg == fbpc \in {"reconcile", "predict"}
\* X_pred is complete: the model is about to be, or has been, called with it.
RowReady == fbpc = "predict" \/ model_calls > 0

RowOrder == [i \in DOMAIN X_pred |-> X_pred[i].k]
NoDuplicates(q) == \A i, j \in DOMAIN q : q[i] = q[j] => i = j
CampaignFeatures == {f \in Range(features) : startswith(f, "campaign_")}
LeafletFeatures == {f \in Range(features) : startswith(f, "leaflet_")}

\* The two walks of the function agree: the row built step by step is the
\* row of build_X_pred for some order of the missing features.
StepwiseAgrees ==
    /\ fbpc = "predict" =>
        \E order \in Orders(Range(features) \ Keys(new_data)) :
            X_pred = build_X_pred(sku, date, competitor, sales_df_clean, prices_df_clean,
                                  campaigns_df_clean, features, order)
    /\ fbpc \in {"returned", "raised"} =>
        \E order \in Orders(Range(features) \ Keys(new_data)) :
            LET run == preparar_features_para_predicao(sku, date, competitor,
                           sales_df_clean, prices_df_clean, campaigns_df_clean,
                           features, order, fb_return)
            IN  run.ret = fb_return /\ run.X = X_pred /\ run.calls = model_calls

\* ---- C1: for a product the sales reference knows, the builder does not
\* raise NotFound and the row handed to the model has exactly the names of
\* feature_names as its keys, no more and no fewer, whatever matched.
C1_KeySetEqualsFeatureNames ==
    /\ KnownProduct => fb_return.status # "ValueError"
    /\ RowReady => /\ KnownProduct
                   /\ Keys(X_pred) = Range(features)
                   /\ NoDuplicates(features) => Len(X_pred) = Len(features)

\* A row whose names were partly computed and partly filled in.
C1_Witness ==
    /\ RowReady
    /\ Len(features) = MaxFeatures
    /\ missing_features(new_data, features) # {}
    /\ available_features(new_data, features) # <<>>
    /\ Keys(X_pred) = Range(features)

\* ---- C2: the keys of the row handed to the model are in the order of
\* feature_names (for a list that names each feature once), also when
\* reconciliation fills names in.
C2_KeyOrderEqualsFeatureNames ==
    (RowReady /\ NoDuplicates(features)) => RowOrder = features

\* ---- C3: for a product the sales reference does not know, the builder
\* raises NotFound with the id at its first step: no row, no campaign, no
\* price statistic is computed, the model is not called, and the function
\* ends with that error: its caller gets the exception, not a row or a
\* default.
C3_UnknownProductFailsFirst ==
    ~KnownProduct =>
        /\ fbpc \in {"start", "raised"}
        /\ new_data = <<>> /\ active_campaign = <<>> /\ X_pred = <<>>
        /\ model_calls = 0
        /\ fbpc = "start" => fb_return = NoReturn
        /\ fbpc = "raised" => fb_return.status = "ValueError" /\ fb_return.sku = sku

\* The call for an unknown product has raised, with campaign and price rows
\* that a later step would have used.
C3_Witness ==
    /\ ~KnownProduct
    /\ fbpc = "raised"
    /\ fb_return.status = "ValueError" /\ fb_return.sku = sku
    /\ sales_df_clean # <<>>
    /\ prices_df_clean # <<>>

\* The campaign rows of the competitor whose range holds the date.
Hits == {i \in DOMAIN campaigns_df_clean :
            /\ campaigns_df_clean[i].competitor = competitor
            /\ campaigns_df_clean[i].start_date <= date
            /\ date <= campaigns_df_clean[i].end_date}
FirstHit == CHOOSE i \in Hits : \A j \in Hits : i <= j

\* ---- C4: when the date lies in a campaign range of the competitor, the
\* feature campaign_<label> of the first such row is 1 and every other
\* campaign_* feature is 0.
C4_ActiveCampaignOneHot ==
    (AfterCampaigns /\ Hits # {}) =>
        \A f \in CampaignFeatures :
            DictGet(new_data, f) =
                Num(IF f = <<"campaign_">> \o campaigns_df_clean[FirstHit].chain_campaign
                    THEN 1 ELSE 0)

\* ---- C5 as stated: outside every campaign range of the competitor, every
\* campaign_* feature is 0 except the one named campaign_, which is 1.
C5_Original ==
    (AfterCampaigns /\ Hits = {}) =>
        \A f \in CampaignFeatures :
            DictGet(new_data, f) = Num(IF f = <<"campaign_">> THEN 1 ELSE 0)

\* ---- C5 amended: outside every campaign range of the competitor, the
\* feature named campaign_ is 0, and a campaign_* feature is 1 exactly when
\* its name without "campaign_" is no_campaign (campaign_no_campaign).
C5_NoCampaignFeatures ==
    (AfterCampaigns /\ Hits = {}) =>
        /\ active_campaign = <<"no_campaign">>
        /\ \A f \in CampaignFeatures :
               DictGet(new_data, f) =
                   Num(IF replace(f, "campaign_") = <<"no_campaign">> THEN 1 ELSE 0)
        /\ <<"campaign_">> \in CampaignFeatures => DictGet(new_data, <<"campaign_">>) = Num(0)

\* No campaign is active although the competitor has campaign rows; the row
\* holds campaign_ (0) and campaign_no_campaign (1).
C5_Witness ==
    /\ AfterCampaigns /\ Hits = {}
    /\ \E i \in DOMAIN campaigns_df_clean : campaigns_df_clean[i].competitor = competitor
    /\ {<<"campaign_">>, <<"campaign_", "no_campaign">>} \subseteq CampaignFeatures
    /\ DictGet(new_data, <<"campaign_">>) = Num(0)
    /\ DictGet(new_data, <<"campaign_", "no_campaign">>) = Num(1)

\* ---- C6: leaflet_none is 1 and every other leaflet_* feature is 0, and
\* reconciliation never has a leaflet_* name left to fill in.
C6_LeafletNoneOnly ==
    AfterLeaflets =>
        /\ \A f \in LeafletFeatures :
               DictGet(new_data, f) = Num(IF f = <<"leaflet_", "none">> THEN 1 ELSE 0)
        /\ \A f \in missing_features(new_data, features) : ~startswith(f, "leaflet_")

\* The products that share a structural code with the product at a level.
SharingProducts(level) ==
    {r.sku : r \in {q \in Range(sales_df_clean) :
                       q.levels[level] \in list_structure_values(sales_df_clean, sku, level)}}

\* ---- C7: {level}_avg_price is the mean target price over the price rows
\* of the products that share a structural code with the product at that
\* level, and NaN when there is no such row.
C7_StructureAvgOverSharingProducts ==
    AfterStructureAvg =>
        \A level \in 1..4 :
            DictGet(new_data, avg_price_key(level)) =
                mean(target_price(SelectSeq(prices_df_clean,
                                            LAMBDA r : r.sku \in SharingProducts(level))))

IdentityOf(row) == <<row.observation_id, row.sku, row.date, row.competitor,
                     row.observation, row.predicted_price>>

\* ---- C8: no step removes a stored record or changes its observation id,
\* product id, date, competitor or predicted price; a record changes only
\* in its actual_price, only by the save of an update_actual request for
\* its observation id, and no other record changes in that step.
C8_RecordsImmutableExceptActual ==
    [][ /\ Len(table') >= Len(table)
        /\ \A i \in DOMAIN table :
              /\ IdentityOf(table'[i]) = IdentityOf(table[i])
              /\ table'[i] # table[i] =>
                    /\ \E r \in 1..Requests :
                          /\ pc[r] = "update_save" /\ pc'[r] = "done"
                          /\ local[r].observation_id = table[i].observation_id
                          /\ table'[i].actual_price = local[r].prediction.actual_price
                    /\ \A j \in DOMAIN table' : j # i => table'[j] = table[j]
      ]_vars

\* Two records are stored; an update_actual has set the actual price of the
\* newer one and the older one is as it was.
C8_Witness ==
    /\ Len(table) = 2
    /\ table[1] = StoredRow
    /\ table[2].actual_price # NULL
    /\ \E r \in 1..Requests : local[r].op = "update_actual" /\ response[r].code = 200

\* What predict rejects, read off the request as it was received.
Rejected(tbl, loc) ==
    \/ loc.obs.sku \in {NULL, 0}
    \/ loc.obs.date \in {0, -1}
    \/ loc.obs.competitor \notin loaded_models
    \/ loc.explicit /\ Matching(tbl, loc.observation_id) # {}
    \/ loc.obs.sku \notin {row.sku : row \in Range(sales_df_clean)}

\* ---- C9: a record is created only by the save of a predict request that
\* then answers 200; a request that answers with an error leaves the table
\* as it is; a predict request with a missing data object or field, an
\* unloaded competitor, an existing explicit id or a failing builder, and
\* an update_actual without actual_price or for an unknown id, end with an
\* error.
C9_ErrorsLeaveStoreUnchanged ==
    [][ /\ \A r \in 1..Requests :
              /\ (response'[r] # response[r] /\ response'[r].code # 200) =>
                     /\ response'[r].code \in {400, 404, 500}
                     /\ table' = table
              /\ (pc[r] = "idle" /\ local'[r].op = "predict" /\ Rejected(table, local'[r])) =>
                     /\ pc'[r] = "done"
                     /\ response'[r].code \in {400, 500}
              /\ (pc[r] = "idle" /\ local'[r].op = "update_actual"
                    /\ (\/ local'[r].actual_price = NULL
                        \/ Matching(table, local'[r].observation_id) = {})) =>
                     /\ pc'[r] = "done"
                     /\ response'[r].code \in {400, 404}
        /\ table' # table /\ Len(table') > Len(table) =>
              \E r \in 1..Requests :
                  /\ local[r].op = "predict" /\ pc[r] = "save"
                  /\ response'[r].code = 200
                  /\ table' = Append(table, table'[Len(table')])
                  /\ table'[Len(table')].observation_id = local[r].observation_id
      ]_vars

\* One request was refused for an existing explicit id, another for an
\* unknown id, and the table is the one the service started with.
C9_Witness ==
    /\ table = <<StoredRow>>
    /\ \E r, q \in 1..Requests :
          /\ local[r].op = "predict" /\ response[r].error = "already_exists"
          /\ local[q].op = "update_actual" /\ response[q].error = "not_found"

\* ---- C10: the table never holds two records with one observation id; a
\* save that finds its observation id stored answers 'already exists' and
\* leaves the table as it is, and a save that does not find it stores
\* exactly one record of that id.
C10_UniqueObservationId ==
    [][ /\ \A i, j \in DOMAIN table' :
              table'[i].observation_id = table'[j].observation_id => i = j
        /\ \A r \in 1..Requests :
              (pc[r] = "save" /\ pc'[r] = "done") =>
                  /\ Cardinality(Matching(table', local[r].observation_id)) = 1
                  /\ Matching(table, local[r].observation_id) # {} =>
                        /\ table' = table
                        /\ response'[r] = Reply(400, "already_exists", local[r].observation_id)
      ]_vars

====
